---- MODULE Spec2Model ----
(***************************************************************************)
(* Leitor_Fatura: the line-extraction engine (leitor_fatura.py) and the    *)
(* web front end (app.py).                                                 *)
(*                                                                         *)
(* A Python str is a sequence of one-character strings.  None is the empty *)
(* tuple and a present value v is <<v>>.  A float amount is carried as an  *)
(* integer number of centavos: every token AMOUNT_RE yields has exactly    *)
(* two decimals, so sums are exact where the code rounds to 2 places.      *)
(***************************************************************************)
EXTENDS Integers, Sequences, FiniteSets, TLC

None == <<>>
Some(v) == <<v>>

Min(S) == CHOOSE x \in S : \A y \in S : x <= y
Max(S) == CHOOSE x \in S : \A y \in S : x >= y

----------------------------------------------------------------------------
(* Characters *)

Digits == {"0", "1", "2", "3", "4", "5", "6", "7", "8", "9"}

DigitVal ==
    ("0" :> 0) @@ ("1" :> 1) @@ ("2" :> 2) @@ ("3" :> 3) @@ ("4" :> 4) @@
    ("5" :> 5) @@ ("6" :> 6) @@ ("7" :> 7) @@ ("8" :> 8) @@ ("9" :> 9)

\* str.upper() on the letters; every other character is its own upper case.
ToUpper ==
    ("a" :> "A") @@ ("b" :> "B") @@ ("c" :> "C") @@ ("d" :> "D") @@
    ("e" :> "E") @@ ("f" :> "F") @@ ("g" :> "G") @@ ("h" :> "H") @@
    ("i" :> "I") @@ ("j" :> "J") @@ ("k" :> "K") @@ ("l" :> "L") @@
    ("m" :> "M") @@ ("n" :> "N") @@ ("o" :> "O") @@ ("p" :> "P") @@
    ("q" :> "Q") @@ ("r" :> "R") @@ ("s" :> "S") @@ ("t" :> "T") @@
    ("u" :> "U") @@ ("v" :> "V") @@ ("w" :> "W") @@ ("x" :> "X") @@
    ("y" :> "Y") @@ ("z" :> "Z")

LowerLetters == DOMAIN ToUpper
UpperLetters == {ToUpper[c] : c \in LowerLetters}

IsDigit(c) == c \in Digits

\* \w of the re module, on the characters of the model
IsWordChar(c) == c \in Digits \cup LowerLetters \cup UpperLetters \cup {"_"}

\* what str.strip() removes
Whitespace == {" ", "\t", "\n"}

\* the class [ \t] of normalize_text
IsBlank(c) == c \in {" ", "\t"}

UpperChar(c) == IF c \in LowerLetters THEN ToUpper[c] ELSE c

\* s.upper()
UpperText(s) == [i \in 1..Len(s) |-> UpperChar(s[i])]

\* s[i] (1-based), or "" beyond the ends
CharAt(s, i) == IF i \in 1..Len(s) THEN s[i] ELSE ""

----------------------------------------------------------------------------
(* str methods *)

\* s.strip(chars), chars given as a set
StripChars(s, chars) ==
    LET keep == {i \in 1..Len(s) : s[i] \notin chars}
    IN  IF keep = {} THEN <<>> ELSE SubSeq(s, Min(keep), Max(keep))

\* s.strip()
Strip(s) == StripChars(s, Whitespace)

\* needle in hay
Contains(hay, needle) ==
    \E i \in 0..(Len(hay) - Len(needle)) :
        SubSeq(hay, i + 1, i + Len(needle)) = needle

\* s.replace(old, new), old non-empty: leftmost occurrences, not overlapping
RECURSIVE ReplaceAll(_, _, _)
ReplaceAll(s, old, new) ==
    IF Len(s) < Len(old) THEN s
    ELSE IF SubSeq(s, 1, Len(old)) = old
         THEN new \o ReplaceAll(SubSeq(s, Len(old) + 1, Len(s)), old, new)
         ELSE <<Head(s)>> \o ReplaceAll(Tail(s), old, new)

\* text.splitlines(): the line break of the model is "\n"; a final line
\* break opens no further line
RECURSIVE SplitLines(_)
SplitLines(s) ==
    IF s = <<>> THEN <<>>
    ELSE LET nl == {i \in 1..Len(s) : s[i] = "\n"}
         IN  IF nl = {} THEN <<s>>
             ELSE <<SubSeq(s, 1, Min(nl) - 1)>>
                      \o SplitLines(SubSeq(s, Min(nl) + 1, Len(s)))

\* re.sub(r"[ \t]+", " ", s) from position i on
RECURSIVE CollapseFrom(_, _)
CollapseFrom(s, i) ==
    IF i > Len(s) THEN <<>>
    ELSE IF IsBlank(s[i])
         THEN (IF i > 1 /\ IsBlank(s[i - 1]) THEN <<>> ELSE <<" ">>)
                  \o CollapseFrom(s, i + 1)
         ELSE <<s[i]>> \o CollapseFrom(s, i + 1)

normalize_text(s) == Strip(CollapseFrom(s, 1))

----------------------------------------------------------------------------
(* DATE_RE = \b(\d{2}/\d{2})(?:/(\d{2,4}))?\b *)

\* n digits from index i on
DigitsAt(s, i, n) ==
    /\ i >= 1
    /\ i + n - 1 <= Len(s)
    /\ \A k \in i..(i + n - 1) : IsDigit(s[k])

\* \b between s[p] and s[p+1]
Boundary(s, p) == IsWordChar(CharAt(s, p)) # IsWordChar(CharAt(s, p + 1))

\* The match of DATE_RE starting at index i: the length of the year it
\* captures (0: the optional group did not take part), or -1 for no match.
\* \d{2,4} is greedy: the longest year followed by a \b wins.
DateMatchAt(s, i) ==
    LET base == /\ Boundary(s, i - 1)
                /\ DigitsAt(s, i, 2)
                /\ CharAt(s, i + 2) = "/"
                /\ DigitsAt(s, i + 3, 2)
        years == {n \in 2..4 : /\ CharAt(s, i + 5) = "/"
                               /\ DigitsAt(s, i + 6, n)
                               /\ Boundary(s, i + 5 + n)}
    IN  IF ~base THEN -1
        ELSE IF years # {} THEN Max(years)
        ELSE IF Boundary(s, i + 4) THEN 0
        ELSE -1

find_best_date(line) ==
    LET starts == {i \in 1..Len(line) : DateMatchAt(line, i) >= 0}
    IN  IF starts = {} THEN None
        ELSE LET i == Min(starts)
                 n == DateMatchAt(line, i)
                 ddmm == SubSeq(line, i, i + 4)
                 yyyy == SubSeq(line, i + 6, i + 5 + n)
             IN  IF n > 0
                 THEN Some(ddmm \o <<"/">>
                               \o (IF Len(yyyy) = 2 THEN <<"2", "0">> \o yyyy
                                   ELSE yyyy))
                 ELSE Some(ddmm)

----------------------------------------------------------------------------
(* AMOUNT_RE = (\()?(-)?(\d{1,3}(?:\.\d{3})*,\d{2}|\d+,\d{2})(\))? *)

\* ,\d{2} from index i on
CommaDD(s, i) == CharAt(s, i) = "," /\ DigitsAt(s, i + 1, 2)

\* k groups \.\d{3} from index i on
Groups(s, i, k) ==
    \A g \in 0..(k - 1) :
        CharAt(s, i + 4 * g) = "." /\ DigitsAt(s, i + 4 * g + 1, 3)

\* The group num from index j on: the index of its last character, or 0.
\* First alternative: \d{1,3} greedy, then the groups greedy, then ,\d{2};
\* second alternative, tried when the first fails: \d+ greedy, then ,\d{2}.
NumEnd(s, j) ==
    LET alt1 == {dk \in (1..3) \X (0..(Len(s) \div 4)) :
                    /\ DigitsAt(s, j, dk[1])
                    /\ Groups(s, j + dk[1], dk[2])
                    /\ CommaDD(s, j + dk[1] + 4 * dk[2])}
        best1 == CHOOSE dk \in alt1 :
                    \A o \in alt1 :
                        \/ dk[1] > o[1]
                        \/ dk[1] = o[1] /\ dk[2] >= o[2]
        alt2 == {n \in 1..Len(s) : DigitsAt(s, j, n) /\ CommaDD(s, j + n)}
    IN  IF alt1 # {} THEN j + best1[1] + 4 * best1[2] + 2
        ELSE IF alt2 # {} THEN j + Max(alt2) + 2
        ELSE 0

\* The match of AMOUNT_RE starting at index i: the index of its last
\* character, or 0 for no match.  An optional group that finds its character
\* takes it: without it the next item would have to match that character,
\* and neither a minus sign nor a digit is "(", nor a digit "-".
AmountMatchEnd(s, i) ==
    LET j1 == IF CharAt(s, i) = "(" THEN i + 1 ELSE i
        j2 == IF CharAt(s, j1) = "-" THEN j1 + 1 ELSE j1
        e == NumEnd(s, j2)
    IN  IF e = 0 THEN 0
        ELSE IF CharAt(s, e + 1) = ")" THEN e + 1
        ELSE e

\* list(AMOUNT_RE.finditer(line)) from index pos on: the matches <<first,
\* last>>, left to right, not overlapping
RECURSIVE AmountFindIter(_, _)
AmountFindIter(s, pos) ==
    IF pos > Len(s) THEN <<>>
    ELSE LET e == AmountMatchEnd(s, pos)
         IN  IF e > 0 THEN <<<<pos, e>>>> \o AmountFindIter(s, e + 1)
             ELSE AmountFindIter(s, pos + 1)

----------------------------------------------------------------------------
(* Money Parser *)

\* the digits of s as a number
RECURSIVE DigitsValue(_)
DigitsValue(s) ==
    IF s = <<>> THEN 0
    ELSE 10 * DigitsValue(SubSeq(s, 1, Len(s) - 1)) + DigitVal[s[Len(s)]]

AllDigits(s) == \A i \in 1..Len(s) : IsDigit(s[i])

\* float(s) in centavos, None for the ValueError: an optional minus sign,
\* digits, and an optional point followed by digits (the characters of the
\* model spell no exponent, infinity or NaN).  Decimals after the second
\* are dropped.
ParseFloat(s) ==
    LET neg == CharAt(s, 1) = "-"
        body == IF neg THEN Tail(s) ELSE s
        dots == {i \in 1..Len(body) : body[i] = "."}
        ip == IF dots = {} THEN body ELSE SubSeq(body, 1, Min(dots) - 1)
        fp == IF dots = {} THEN <<>>
              ELSE SubSeq(body, Min(dots) + 1, Len(body))
        frac == SubSeq(fp \o <<"0", "0">>, 1, 2)
        ok == /\ Cardinality(dots) <= 1
              /\ AllDigits(ip)
              /\ AllDigits(fp)
              /\ Len(ip) + Len(fp) > 0
        cents == 100 * DigitsValue(ip) + DigitsValue(frac)
    IN  IF ~ok THEN None
        ELSE Some(IF neg THEN 0 - cents ELSE cents)

\* None stands for the exception float() raises
br_money_to_float(raw) ==
    LET s1 == Strip(raw)
        is_paren == CharAt(s1, 1) = "(" /\ CharAt(s1, Len(s1)) = ")"
        s2 == StripChars(s1, {"(", ")"})
        s3 == Strip(ReplaceAll(ReplaceAll(s2, <<"R", "$">>, <<>>),
                               <<"B", "R", "L">>, <<>>))
        s4 == ReplaceAll(ReplaceAll(s3, <<".">>, <<>>), <<",">>, <<".">>)
        val == ParseFloat(s4)
    IN  IF val = None THEN None
        ELSE IF is_paren THEN Some(0 - val[1])
        ELSE val

\* find_best_amount taking matches[0]
find_first_amount(line) ==
    LET matches == AmountFindIter(line, 1)
    IN  IF matches = <<>> THEN None
        ELSE br_money_to_float(SubSeq(line, matches[1][1], matches[1][2]))

\* matches[-1], and the except branch that turns a failed conversion into None
find_best_amount(line) ==
    LET matches == AmountFindIter(line, 1)
    IN  IF matches = <<>> THEN None
        ELSE LET m == matches[Len(matches)]
             IN  br_money_to_float(SubSeq(line, m[1], m[2]))

----------------------------------------------------------------------------
(* Keyword Matcher and Line Extraction Engine *)

\* guess_app_from_line letting a later keyword of the list overwrite the hit
RECURSIVE GuessFromLast(_, _, _)
GuessFromLast(up, keywords, i) ==
    IF i > Len(keywords) THEN None
    ELSE LET rest == GuessFromLast(up, keywords, i + 1)
         IN  IF rest # None THEN rest
             ELSE IF Contains(up, UpperText(keywords[i]))
                  THEN Some(UpperText(keywords[i]))
                  ELSE None

\* guess_app_from_line returning the keyword as typed in the list
RECURSIVE GuessFromAsTyped(_, _, _)
GuessFromAsTyped(up, keywords, i) ==
    IF i > Len(keywords) THEN None
    ELSE IF Contains(up, UpperText(keywords[i]))
         THEN Some(keywords[i])
         ELSE GuessFromAsTyped(up, keywords, i + 1)

\* the loop over keywords from index i on
RECURSIVE GuessFrom(_, _, _)
GuessFrom(up, keywords, i) ==
    IF i > Len(keywords) THEN None
    ELSE IF Contains(up, UpperText(keywords[i]))
         THEN Some(UpperText(keywords[i]))
         ELSE GuessFrom(up, keywords, i + 1)

guess_app_from_line(line, keywords) == GuessFrom(UpperText(line), keywords, 1)

Lancamento(app, data, descricao, valor, pagina) ==
    [app |-> app, data |-> data, descricao |-> descricao,
     valor |-> valor, pagina |-> pagina]

\* the loop body without the "if valor is None: continue", the amount
\* defaulting to 0
ExtractLineKeepingNoAmount(raw_line, page_index, keywords) ==
    LET line == normalize_text(raw_line)
        app == guess_app_from_line(line, keywords)
        data == find_best_date(line)
        valor == find_best_amount(line)
    IN  IF line = <<>> THEN <<>>
        ELSE IF app = None \/ app = Some(<<>>) THEN <<>>
        ELSE <<Lancamento(app[1],
                          IF data = None THEN <<>> ELSE data[1],
                          line,
                          IF valor = None THEN 0 ELSE valor[1],
                          page_index + 1)>>

\* One pass of the loop over text.splitlines(): the records of one raw line.
\* "if not app" skips a match whose upper-cased keyword is empty as well;
\* the description the code strips the amount from is never used.
ExtractLine(raw_line, page_index, keywords) ==
    LET line == normalize_text(raw_line)
        app == guess_app_from_line(line, keywords)
        data == find_best_date(line)
        valor == find_best_amount(line)
    IN  IF line = <<>> THEN <<>>
        ELSE IF app = None \/ app = Some(<<>>) THEN <<>>
        ELSE IF valor = None THEN <<>>
        ELSE <<Lancamento(app[1],
                          IF data = None THEN <<>> ELSE data[1],
                          line, valor[1], page_index + 1)>>

RECURSIVE ExtractLines(_, _, _)
ExtractLines(lines, page_index, keywords) ==
    IF lines = <<>> THEN <<>>
    ELSE ExtractLine(Head(lines), page_index, keywords)
             \o ExtractLines(Tail(lines), page_index, keywords)

extract_candidates_from_text(text, page_index, keywords) ==
    ExtractLines(SplitLines(text), page_index, keywords)

----------------------------------------------------------------------------
(* Fragments of invoice text *)

FragUBER == <<"U", "B", "E", "R">>
FragUber == <<"u", "b", "e", "r">>
Frag99 == <<"9", "9">>
FragDDMM == <<"0", "5", "/", "0", "3">>
FragYY == <<"/", "2", "6">>
FragYYY == <<"/", "2", "0", "2">>
FragAmount == <<"1", ",", "5", "0">>
FragThousands == <<"1", ".", "2", "3", "4", ",", "5", "6">>

----------------------------------------------------------------------------
(* Keyword store: keywords.json *)

\* load_keywords: the default list when there is no file
DefaultKeywords == <<FragUBER, Frag99>>

AbsentStore == [exists |-> FALSE, keywords |-> <<>>]

\* [str(k).strip() for k in kws if str(k).strip()]
RECURSIVE StripAll(_)
StripAll(ks) ==
    IF ks = <<>> THEN <<>>
    ELSE (IF Strip(Head(ks)) = <<>> THEN <<>> ELSE <<Strip(Head(ks))>>)
             \o StripAll(Tail(ks))

load_keywords(st) ==
    IF ~st.exists THEN DefaultKeywords ELSE StripAll(st.keywords)

save_keywords(st, keywords) == [exists |-> TRUE, keywords |-> keywords]

\* [k.upper() for k in kws]
Uppers(ks) == {UpperText(ks[i]) : i \in 1..Len(ks)}

\* add_keyword comparing the term as typed: keyword not in kws
add_keyword_case_sensitive(st, keyword) ==
    LET kw == Strip(keyword)
        ks == load_keywords(st)
    IN  IF kw = <<>> THEN st
        ELSE IF kw \notin {ks[i] : i \in 1..Len(ks)}
             THEN save_keywords(st, Append(ks, kw))
             ELSE st

\* The store after add_keyword(path, keyword); a ValueError leaves it as is.
add_keyword(st, keyword) ==
    LET kw == Strip(keyword)
        ks == load_keywords(st)
    IN  IF kw = <<>> THEN st
        ELSE IF UpperText(kw) \notin Uppers(ks)
             THEN save_keywords(st, Append(ks, kw))
             ELSE st

\* The store after remove_keyword(path, keyword): the filtered list is saved
\* whether or not the filter dropped a term.
remove_keyword(st, keyword) ==
    LET kw == Strip(keyword)
        ks == load_keywords(st)
        Keep(k) == UpperText(k) # UpperText(kw)
    IN  IF kw = <<>> THEN st
        ELSE save_keywords(st, SelectSeq(ks, Keep))

----------------------------------------------------------------------------
(* read_pdf_extract: a PDF is the sequence of its pages' texts, the empty  *)
(* text standing for a page pdfplumber extracts nothing from.              *)

\* the loop body on page i (0-based) without the test for a blank page: the
\* page number is the count of the pages read so far that gave records
PageStepCountingRecords(ls, pdf, i, keywords) ==
    LET found == extract_candidates_from_text(pdf[i + 1], i, keywords)
        seen == {ls[k].pagina : k \in 1..Len(ls)}
        Renumber(l) == [l EXCEPT !.pagina = Cardinality(seen) + 1]
    IN  ls \o [k \in 1..Len(found) |-> Renumber(found[k])]

\* One pass of the loop over enumerate(pdf.pages): the list after page i
\* (0-based).  A page whose text strips to nothing is skipped by continue.
PageStep(ls, pdf, i, keywords) ==
    IF Strip(pdf[i + 1]) = <<>> THEN ls
    ELSE ls \o extract_candidates_from_text(pdf[i + 1], i, keywords)

RECURSIVE ReadFrom(_, _, _, _)
ReadFrom(ls, pdf, i, keywords) ==
    IF i >= Len(pdf) THEN ls
    ELSE ReadFrom(PageStep(ls, pdf, i, keywords), pdf, i + 1, keywords)

read_pdf_extract(pdf, keywords) == ReadFrom(<<>>, pdf, 0, keywords)

----------------------------------------------------------------------------
(* write_xlsx: the workbook is its two sheets' data rows (the header rows, *)
(* the formats and the column widths are left out).                        *)

TotalGeralLabel == <<"T", "O", "T", "A", "L", " ", "G", "E", "R", "A", "L">>

\* totals.get(k, d)
DictGet(d, k, default) == IF k \in DOMAIN d THEN d[k] ELSE default

\* totals[l.app] = totals.get(l.app, 0.0) + l.valor, over lancs
RECURSIVE TotalsOf(_)
TotalsOf(ls) ==
    IF ls = <<>> THEN [k \in {} |-> 0]
    ELSE LET t == TotalsOf(SubSeq(ls, 1, Len(ls) - 1))
             l == ls[Len(ls)]
         IN  [k \in DOMAIN t \cup {l.app} |->
                 IF k = l.app THEN DictGet(t, k, 0) + l.valor ELSE t[k]]

\* sum(totals.values())
RECURSIVE SumValues(_)
SumValues(d) ==
    IF DOMAIN d = {} THEN 0
    ELSE LET k == CHOOSE x \in DOMAIN d : TRUE
         IN  d[k] + SumValues([x \in DOMAIN d \ {k} |-> d[x]])

\* the row of a keyword with key = kw.upper() forgotten
ResumoRowAsTyped(totals, kw) == <<kw, DictGet(totals, kw, 0)>>

\* ws2.append([key, round(totals.get(key, 0.0), 2)])
ResumoRow(totals, kw) ==
    <<UpperText(kw), DictGet(totals, UpperText(kw), 0)>>

write_xlsx(ls, keywords) ==
    LET totals == TotalsOf(ls)
    IN  [lancamentos |->
             [k \in 1..Len(ls) |->
                 <<ls[k].app, ls[k].data, ls[k].descricao, ls[k].valor,
                   ls[k].pagina>>],
         resumo |->
             [k \in 1..Len(keywords) |-> ResumoRow(totals, keywords[k])]
                 \o <<<<TotalGeralLabel, SumValues(totals)>>>>]

NoBook == [lancamentos |-> <<>>, resumo |-> <<>>]

----------------------------------------------------------------------------
(* Inputs of the text functions: a page text is up to MaxFrags fragments   *)
(* of invoice text, one after the other.                                   *)

MaxFrags == 3

Frags ==
    {FragUBER, FragUber, Frag99, FragDDMM, FragYY, FragYYY, FragAmount,
     FragThousands, <<"(">>, <<")">>, <<"-">>, <<" ">>, <<"\n">>}

\* Keyword lists load_keywords can return
KeywordLists == {DefaultKeywords, <<Frag99, FragUber>>, <<>>}

VARIABLES
    \* the text functions
    text,       \* the page text
    nfrags,     \* the fragments it is made of
    op,         \* "build", or the function that was called
    arg,        \* the line the function was called on
    kws,        \* the keyword list it was called with
    ret,        \* what it returned
    \* the keyword store
    store,      \* keywords.json: whether it exists, and its "keywords" list
    store0,     \* the store before the first call
    call,       \* the last add_keyword or remove_keyword call
    \* a run: main's "run" command
    pdf,        \* the texts of the pages of the PDF
    keywords,   \* the list load_keywords returned
    page_i,     \* the pages read_pdf_extract has been through
    lancs,      \* its list of records
    sheet,      \* the workbook write_xlsx saved
    pc,         \* where the run is
    \* the web front end, per client
    wpc,        \* where the client is
    wkeywords,  \* index's keywords
    wlancs,     \* index's lancamentos
    got,        \* what GET /download sent the client
    resultado,  \* resultado.xlsx: the workbook and the request that saved it
    writers     \* the requests that have saved resultado.xlsx

textVars == <<text, nfrags, op, arg, kws, ret>>
kwVars == <<store, store0, call>>
runVars == <<pdf, keywords, page_i, lancs, sheet, pc>>
webVars == <<wpc, wkeywords, wlancs, got, resultado, writers>>

vars == <<textVars, kwVars, runVars, webVars>>

Clients == {1, 2}

NoCall == [op |-> "none", term |-> <<>>, before |-> AbsentStore]

NoFile == [exists |-> FALSE, book |-> NoBook, by |-> 0]

TextInit ==
    /\ text = <<>>
    /\ nfrags = 0
    /\ op = "build"
    /\ arg = <<>>
    /\ kws = <<>>
    /\ ret = <<>>
    /\ store = AbsentStore
    /\ store0 = AbsentStore
    /\ call = NoCall
    /\ pdf = <<>>
    /\ keywords = <<>>
    /\ page_i = 0
    /\ lancs = <<>>
    /\ sheet = NoBook
    /\ pc = "idle"
    /\ wpc = [c \in Clients |-> "idle"]
    /\ wkeywords = [c \in Clients |-> <<>>]
    /\ wlancs = [c \in Clients |-> <<>>]
    /\ got = [c \in Clients |-> NoFile]
    /\ resultado = NoFile
    /\ writers = {}

AppendFrag ==
    /\ op = "build"
    /\ nfrags < MaxFrags
    /\ \E f \in Frags : text' = text \o f
    /\ nfrags' = nfrags + 1
    /\ UNCHANGED <<op, arg, kws, ret>>
    /\ UNCHANGED <<kwVars, runVars, webVars>>

\* the lines extract_candidates_from_text hands to the line functions
LinesOf(t) ==
    LET ls == SplitLines(t) IN [i \in 1..Len(ls) |-> normalize_text(ls[i])]

CallFindBestDate ==
    /\ op = "build"
    /\ LET lines == LinesOf(text)
       IN  \E i \in 1..Len(lines) :
               /\ arg' = lines[i]
               /\ ret' = find_best_date(lines[i])
    /\ op' = "find_best_date"
    /\ UNCHANGED <<text, nfrags, kws>>
    /\ UNCHANGED <<kwVars, runVars, webVars>>

CallFindBestAmount ==
    /\ op = "build"
    /\ LET lines == LinesOf(text)
       IN  \E i \in 1..Len(lines) :
               /\ arg' = lines[i]
               /\ ret' = find_best_amount(lines[i])
    /\ op' = "find_best_amount"
    /\ UNCHANGED <<text, nfrags, kws>>
    /\ UNCHANGED <<kwVars, runVars, webVars>>

CallGuessApp ==
    /\ op = "build"
    /\ LET lines == LinesOf(text)
       IN  \E i \in 1..Len(lines), k \in KeywordLists :
               /\ arg' = lines[i]
               /\ kws' = k
               /\ ret' = guess_app_from_line(lines[i], k)
    /\ op' = "guess_app_from_line"
    /\ UNCHANGED <<text, nfrags>>
    /\ UNCHANGED <<kwVars, runVars, webVars>>

CallExtract ==
    /\ op = "build"
    /\ \E k \in KeywordLists :
           /\ kws' = k
           /\ ret' = extract_candidates_from_text(text, 0, k)
    /\ op' = "extract_candidates_from_text"
    /\ UNCHANGED <<text, nfrags, arg>>
    /\ UNCHANGED <<kwVars, runVars, webVars>>

TextNext ==
    \/ AppendFrag
    \/ CallFindBestDate
    \/ CallFindBestAmount
    \/ CallGuessApp
    \/ CallExtract

SpecText == TextInit /\ [][TextNext]_vars

----------------------------------------------------------------------------
(* The keyword store under add_keyword and remove_keyword *)

MaxStoreTerms == 2

FragPaddedUber == <<" ">> \o FragUber

\* terms a keywords.json may hold
StoreTerms == {FragUBER, FragUber, FragPaddedUber, Frag99, <<>>}

\* terms a caller may pass
CallTerms == {FragUBER, FragUber, FragPaddedUber, Frag99, <<"X">>, <<" ">>}

RECURSIVE SeqsUpTo(_, _)
SeqsUpTo(S, n) ==
    IF n = 0 THEN {<<>>}
    ELSE LET shorter == SeqsUpTo(S, n - 1)
         IN  shorter \cup {Append(q, x) : q \in shorter, x \in S}

Stores ==
    {AbsentStore}
        \cup {[exists |-> TRUE, keywords |-> q] :
                 q \in SeqsUpTo(StoreTerms, MaxStoreTerms)}

KwInit ==
    /\ text = <<>>
    /\ nfrags = 0
    /\ op = "idle"
    /\ arg = <<>>
    /\ kws = <<>>
    /\ ret = <<>>
    /\ store \in Stores
    /\ store0 = store
    /\ call = NoCall
    /\ pdf = <<>>
    /\ keywords = <<>>
    /\ page_i = 0
    /\ lancs = <<>>
    /\ sheet = NoBook
    /\ pc = "idle"
    /\ wpc = [c \in Clients |-> "idle"]
    /\ wkeywords = [c \in Clients |-> <<>>]
    /\ wlancs = [c \in Clients |-> <<>>]
    /\ got = [c \in Clients |-> NoFile]
    /\ resultado = NoFile
    /\ writers = {}

AddKeyword ==
    /\ \E k \in CallTerms :
           /\ store' = add_keyword(store, k)
           /\ call' = [op |-> "add", term |-> k, before |-> store]
    /\ UNCHANGED store0
    /\ UNCHANGED <<textVars, runVars, webVars>>

RemoveKeyword ==
    /\ \E k \in CallTerms :
           /\ store' = remove_keyword(store, k)
           /\ call' = [op |-> "remove", term |-> k, before |-> store]
    /\ UNCHANGED store0
    /\ UNCHANGED <<textVars, runVars, webVars>>

KwNext ==
    \/ AddKeyword
    \/ RemoveKeyword

SpecKw == KwInit /\ [][KwNext]_vars

----------------------------------------------------------------------------
(* write_xlsx on any list of records *)

MaxLancs == 3

\* keyword lists, one of them with two terms equal case-insensitively (a
\* keywords.json edited by hand)
ReportKeywordLists ==
    {DefaultKeywords, <<Frag99, FragUber>>, <<FragUber, FragUBER>>, <<>>}

\* records, one of them with a term that no list configures
ReportLancs ==
    {Lancamento(a, <<>>, a, v, 1) :
        a \in {FragUBER, Frag99, <<"X">>}, v \in {1850, 0 - 150}}

ReportInit ==
    /\ text = <<>>
    /\ nfrags = 0
    /\ op = "idle"
    /\ arg = <<>>
    /\ kws = <<>>
    /\ ret = <<>>
    /\ store = AbsentStore
    /\ store0 = store
    /\ call = NoCall
    /\ pdf = <<>>
    /\ keywords \in ReportKeywordLists
    /\ page_i = 0
    /\ lancs = <<>>
    /\ sheet = NoBook
    /\ pc = "records"
    /\ wpc = [c \in Clients |-> "idle"]
    /\ wkeywords = [c \in Clients |-> <<>>]
    /\ wlancs = [c \in Clients |-> <<>>]
    /\ got = [c \in Clients |-> NoFile]
    /\ resultado = NoFile
    /\ writers = {}

AppendLancamento ==
    /\ pc = "records"
    /\ Len(lancs) < MaxLancs
    /\ \E l \in ReportLancs : lancs' = Append(lancs, l)
    /\ UNCHANGED <<pdf, keywords, page_i, sheet, pc>>
    /\ UNCHANGED <<textVars, kwVars, webVars>>

CallWriteXlsx ==
    /\ pc = "records"
    /\ sheet' = write_xlsx(lancs, keywords)
    /\ pc' = "done"
    /\ UNCHANGED <<pdf, keywords, page_i, lancs>>
    /\ UNCHANGED <<textVars, kwVars, webVars>>

ReportNext ==
    \/ AppendLancamento
    \/ CallWriteXlsx

SpecReport == ReportInit /\ [][ReportNext]_vars

----------------------------------------------------------------------------
(* A run: load_keywords, read_pdf_extract page by page, write_xlsx, while  *)
(* another process (POST /add_keyword, or the add command) may add a       *)
(* keyword to the store.                                                   *)

MaxPages == 2

\* 05/03 UBER 18,50 | 06/03 99POP 12,00 | about uber
PageRides ==
    <<"0", "5", "/", "0", "3", " ", "U", "B", "E", "R", " ", "1", "8", ",",
      "5", "0", "\n", "0", "6", "/", "0", "3", " ", "9", "9", "P", "O",
      "P", " ", "1", "2", ",", "0", "0", "\n", "a", "b", "o", "u", "t",
      " ", "u", "b", "e", "r">>

\* 99 uber (1,50)
PageBoth ==
    <<"9", "9", " ", "u", "b", "e", "r", " ", "(", "1", ",", "5", "0", ")">>

\* a page of white space
PageBlank == <<" ", "\n", " ">>

\* a page with no text
PageNoText == <<>>

PageTexts == {PageRides, PageBoth, PageBlank, PageNoText}

RunStores ==
    {AbsentStore,
     [exists |-> TRUE, keywords |-> <<Frag99, FragUber>>],
     [exists |-> TRUE, keywords |-> <<FragUber, FragUBER>>],
     [exists |-> TRUE, keywords |-> <<>>]}

RunInit ==
    /\ text = <<>>
    /\ nfrags = 0
    /\ op = "idle"
    /\ arg = <<>>
    /\ kws = <<>>
    /\ ret = <<>>
    /\ store \in RunStores
    /\ store0 = store
    /\ call = NoCall
    /\ pdf \in SeqsUpTo(PageTexts, MaxPages)
    /\ keywords = <<>>
    /\ page_i = 0
    /\ lancs = <<>>
    /\ sheet = NoBook
    /\ pc = "start"
    /\ wpc = [c \in Clients |-> "idle"]
    /\ wkeywords = [c \in Clients |-> <<>>]
    /\ wlancs = [c \in Clients |-> <<>>]
    /\ got = [c \in Clients |-> NoFile]
    /\ resultado = NoFile
    /\ writers = {}

\* keywords = load_keywords(kw_path)
RunLoad ==
    /\ pc = "start"
    /\ keywords' = load_keywords(store)
    /\ pc' = "pages"
    /\ UNCHANGED <<pdf, page_i, lancs, sheet>>
    /\ UNCHANGED <<textVars, kwVars, webVars>>

\* one page of read_pdf_extract
RunPage ==
    /\ pc = "pages"
    /\ page_i < Len(pdf)
    /\ lancs' = PageStep(lancs, pdf, page_i, keywords)
    /\ page_i' = page_i + 1
    /\ UNCHANGED <<pdf, keywords, sheet, pc>>
    /\ UNCHANGED <<textVars, kwVars, webVars>>

\* write_xlsx(out_path, lancs, keywords)
RunWrite ==
    /\ pc = "pages"
    /\ page_i = Len(pdf)
    /\ sheet' = write_xlsx(lancs, keywords)
    /\ pc' = "done"
    /\ UNCHANGED <<pdf, keywords, page_i, lancs>>
    /\ UNCHANGED <<textVars, kwVars, webVars>>

\* add_keyword from another process while the run goes on
AddKeywordMeanwhile ==
    /\ pc \in {"start", "pages"}
    /\ \E k \in {<<"X">>, Frag99} : store' = add_keyword(store, k)
    /\ store' # store
    /\ UNCHANGED <<store0, call>>
    /\ UNCHANGED <<textVars, runVars, webVars>>

RunNext ==
    \/ RunLoad
    \/ RunPage
    \/ RunWrite
    \/ AddKeywordMeanwhile

SpecRun == RunInit /\ [][RunNext]_vars

----------------------------------------------------------------------------
(* The web front end: two clients, each POSTing a PDF to / and then        *)
(* GETting /download.  index is two steps, up to read_pdf_extract and from *)
(* write_xlsx on; every request saves its upload under a uuid4 name of its *)
(* own and every request saves the workbook as resultado.xlsx.             *)

WebPdfs == {<<PageRides>>, <<PageBoth>>, <<PageNoText>>}

WebInit ==
    /\ text = <<>>
    /\ nfrags = 0
    /\ op = "idle"
    /\ arg = <<>>
    /\ kws = <<>>
    /\ ret = <<>>
    /\ store = AbsentStore
    /\ store0 = store
    /\ call = NoCall
    /\ pdf = <<>>
    /\ keywords = <<>>
    /\ page_i = 0
    /\ lancs = <<>>
    /\ sheet = NoBook
    /\ pc = "idle"
    /\ wpc = [c \in Clients |-> "idle"]
    /\ wkeywords = [c \in Clients |-> <<>>]
    /\ wlancs = [c \in Clients |-> <<>>]
    /\ got = [c \in Clients |-> NoFile]
    /\ resultado = NoFile
    /\ writers = {}

\* index, POST: pdf.save, load_keywords, read_pdf_extract
IndexExtract(c) ==
    /\ wpc[c] = "idle"
    /\ wkeywords' = [wkeywords EXCEPT ![c] = load_keywords(store)]
    /\ \E f \in WebPdfs :
           wlancs' = [wlancs EXCEPT
                         ![c] = read_pdf_extract(f, load_keywords(store))]
    /\ wpc' = [wpc EXCEPT ![c] = "extracted"]
    /\ UNCHANGED <<got, resultado, writers>>
    /\ UNCHANGED <<textVars, kwVars, runVars>>

\* index, POST: write_xlsx(Path("resultado.xlsx"), ...), render_template
IndexWrite(c) ==
    /\ wpc[c] = "extracted"
    /\ resultado' = [exists |-> TRUE,
                     book |-> write_xlsx(wlancs[c], wkeywords[c]),
                     by |-> c]
    /\ writers' = writers \cup {c}
    /\ wpc' = [wpc EXCEPT ![c] = "posted"]
    /\ UNCHANGED <<wkeywords, wlancs, got>>
    /\ UNCHANGED <<textVars, kwVars, runVars>>

\* download: send_file("resultado.xlsx")
Download(c) ==
    /\ wpc[c] = "posted"
    /\ got' = [got EXCEPT ![c] = resultado]
    /\ wpc' = [wpc EXCEPT ![c] = "downloaded"]
    /\ UNCHANGED <<wkeywords, wlancs, resultado, writers>>
    /\ UNCHANGED <<textVars, kwVars, runVars>>

\* add_kw: add_keyword(KEYWORDS_FILE, termo) when termo is not empty
AddKw ==
    /\ \E termo \in {<<"X">>, Frag99} :
           /\ termo # <<>>
           /\ store' = add_keyword(store, termo)
    /\ store' # store
    /\ UNCHANGED <<store0, call>>
    /\ UNCHANGED <<textVars, runVars, webVars>>

WebNext ==
    \/ \E c \in Clients : IndexExtract(c)
    \/ \E c \in Clients : IndexWrite(c)
    \/ \E c \in Clients : Download(c)
    \/ AddKw

SpecWeb == WebInit /\ [][WebNext]_vars

----------------------------------------------------------------------------
(* Claims on the keyword store *)

NoCaseDup(ks) ==
    \A i, j \in 1..Len(ks) : i # j => UpperText(ks[i]) # UpperText(ks[j])

TermsOf(ks) == {ks[i] : i \in 1..Len(ks)}

IndexIn(ks, x) == Min({i \in 1..Len(ks) : ks[i] = x})

\* the terms of a that are in b stand in b in the order they have in a, and
\* a term of b that is not in a is the last of b
OrderKept(a, b) ==
    /\ \A i, j \in 1..Len(b) :
           (i < j /\ b[i] \in TermsOf(a) /\ b[j] \in TermsOf(a))
               => IndexIn(a, b[i]) < IndexIn(a, b[j])
    /\ \A i \in 1..Len(b) : b[i] \notin TermsOf(a) => i = Len(b)

\* after any calls the persisted list has no two terms equal
\* case-insensitively, and the last call kept the order of the terms it found
DupFreeAndOrdered ==
    /\ store.exists => NoCaseDup(store.keywords)
    /\ call.op # "none" =>
           OrderKept(load_keywords(call.before), load_keywords(store))

\* C5 as stated: starting from a store that is absent or holds no two terms
\* equal case-insensitively, after any sequence of add_keyword and
\* remove_keyword calls the persisted list holds no two terms equal
\* case-insensitively, the order of the terms already there is kept and a new
\* term is appended at the end.
C5_DupFreeFromDupFreeStore ==
    (~store0.exists \/ NoCaseDup(store0.keywords)) => DupFreeAndOrdered

\* C5 as amended: the same, starting from a store that is absent or holds no
\* two terms equal case-insensitively also once load_keywords has trimmed
\* them.
C5_DupFreeFromStoreDupFreeAsLoaded ==
    (/\ ~store0.exists \/ NoCaseDup(store0.keywords)
     /\ NoCaseDup(load_keywords(store0)))
        => DupFreeAndOrdered

\* a store holding two terms took a third at its end
C5_Witness ==
    /\ store0.exists
    /\ Len(store0.keywords) = 2
    /\ NoCaseDup(store0.keywords)
    /\ NoCaseDup(load_keywords(store0))
    /\ call.op = "add"
    /\ store # call.before
    /\ Len(store.keywords) = 3

\* C6: the store is written only on mutation: add_keyword of a term that is
\* there (case-insensitively) and remove_keyword of a term that is not leave
\* the persisted store exactly as it was, absent when it was absent.
C6_NoWriteWithoutMutation ==
    LET term == UpperText(Strip(call.term))
        there == term \in Uppers(load_keywords(call.before))
    IN  /\ (call.op = "add" /\ there) => store = call.before
        /\ (call.op = "remove" /\ term # <<>> /\ ~there)
               => store = call.before

----------------------------------------------------------------------------
(* Claims on the report, the run and the web front end *)

\* the sum of the amounts of the records whose term is in the set
RECURSIVE SumOfTerms(_, _)
SumOfTerms(ls, terms) ==
    IF ls = <<>> THEN 0
    ELSE (IF Head(ls).app \in terms THEN Head(ls).valor ELSE 0)
             + SumOfTerms(Tail(ls), terms)

AllTerms(ls) == {ls[i].app : i \in 1..Len(ls)}

\* the sum of the totals of the rows
RECURSIVE SumOfRows(_)
SumOfRows(rows) ==
    IF rows = <<>> THEN 0 ELSE Head(rows)[2] + SumOfRows(Tail(rows))

\* C7: the summary sheet has one row per configured keyword, in list order
\* and keyed by the upper-cased keyword, whose total is the sum of the
\* amounts of the records with that term (0 when there is none), and then
\* one TOTAL GERAL row with the sum of the amounts of all records.
C7_SummaryRows ==
    pc = "done" =>
        /\ Len(sheet.resumo) = Len(keywords) + 1
        /\ \A k \in 1..Len(keywords) :
               sheet.resumo[k] =
                   <<UpperText(keywords[k]),
                     SumOfTerms(lancs, {UpperText(keywords[k])})>>
        /\ sheet.resumo[Len(keywords) + 1] =
               <<TotalGeralLabel, SumOfTerms(lancs, AllTerms(lancs))>>

\* a report of three records, one with a term that is not configured, for a
\* list one of whose keywords no record has
C7_Witness ==
    /\ pc = "done"
    /\ Len(lancs) = 3
    /\ keywords = DefaultKeywords
    /\ AllTerms(lancs) = {FragUBER, <<"X">>}
    /\ sheet.resumo[2] = <<Frag99, 0>>
    /\ sheet.resumo[3][2] # sheet.resumo[1][2]

\* C8: the workbook a client downloads after its POST was saved by that
\* client's request, and no other request has saved resultado.xlsx.
C8_DownloadIsOwnReport ==
    \A c \in Clients :
        wpc[c] = "downloaded" => got[c].by = c /\ writers = {c}

\* the records with page number p
OfPage(ls, p) == LET On(l) == l.pagina = p IN SelectSeq(ls, On)

\* C9: the records are those of each page in document order and, within a
\* page, in line order: page numbers never decrease, a record's page number
\* is the 1-based index of its page in the document, a blank page gives no
\* record and the pages after it are read all the same.
C9_RecordsInDocumentOrder ==
    /\ \A i, j \in 1..Len(lancs) : i < j => lancs[i].pagina <= lancs[j].pagina
    /\ \A i \in 1..Len(lancs) : lancs[i].pagina \in 1..page_i
    /\ \A p \in 1..page_i :
           /\ OfPage(lancs, p) =
                  extract_candidates_from_text(pdf[p], p - 1, keywords)
           /\ Strip(pdf[p]) = <<>> => OfPage(lancs, p) = <<>>
    /\ pc = "done" => page_i = Len(pdf)

\* a blank first page, then a page that gave records numbered 2
C9_Witness ==
    /\ pc = "done"
    /\ Len(pdf) = 2
    /\ pdf[1] = PageBlank
    /\ Len(lancs) = 2
    /\ lancs[1].pagina = 2

\* C10: in a run the list load_keywords returned serves both the extraction
\* and the report: every record's term is the upper-cased form of a keyword
\* of it and, when it holds no two terms equal case-insensitively, the
\* summary rows of the keywords add up to the TOTAL GERAL row.
C10_RowsAddUpToTotal ==
    pc = "done" =>
        /\ AllTerms(lancs) \subseteq Uppers(keywords)
        /\ NoCaseDup(keywords) =>
               SumOfRows(SubSeq(sheet.resumo, 1, Len(keywords)))
                   = sheet.resumo[Len(keywords) + 1][2]

\* a run over records of two terms, the store having changed since it was
\* loaded
C10_Witness ==
    /\ pc = "done"
    /\ NoCaseDup(keywords)
    /\ Cardinality(AllTerms(lancs)) = 2
    /\ sheet.resumo[Len(keywords) + 1][2] # 0
    /\ load_keywords(store) # keywords

----------------------------------------------------------------------------
(* Claims on the text functions *)

\* some keyword of the list is, case-insensitively, a substring of the line
KeywordHits(line, ks) ==
    {k \in 1..Len(ks) : Contains(UpperText(line), UpperText(ks[k]))}

\* the indices at which AMOUNT_RE matches
AmountStarts(line) == {i \in 1..Len(line) : AmountMatchEnd(line, i) > 0}

\* C1: extract_candidates_from_text emits one record for a line exactly when
\* the normalized line is non-empty, some keyword matches it and an amount
\* resolves for it; every record has a non-empty term that is the upper-cased
\* form of a keyword of the list, and the amount resolved for its line.
C1_RecordIffKeywordAndAmount ==
    op = "extract_candidates_from_text" =>
        LET Qualifies(l) ==
                /\ l # <<>>
                /\ KeywordHits(l, kws) # {}
                /\ find_best_amount(l) # None
        IN  /\ [i \in 1..Len(ret) |-> ret[i].descricao]
                   = SelectSeq(LinesOf(text), Qualifies)
            /\ \A i \in 1..Len(ret) :
                   /\ ret[i].app # <<>>
                   /\ \E k \in 1..Len(kws) : ret[i].app = UpperText(kws[k])
                   /\ Some(ret[i].valor) = find_best_amount(ret[i].descricao)

\* a line with a keyword and an amount gave a record without a date, and a
\* second line, with a keyword and no amount, gave none
C1_Witness ==
    /\ op = "extract_candidates_from_text"
    /\ Len(ret) = 1
    /\ ret[1].data = <<>>
    /\ Len(LinesOf(text)) = 2
    /\ KeywordHits(LinesOf(text)[2], kws) # {}

\* C2: guess_app_from_line returns, upper-cased, the first keyword in list
\* order that is case-insensitively a substring of the line, wherever the
\* keywords stand in the line, and None when no keyword is one.
C2_FirstKeywordInListOrder ==
    op = "guess_app_from_line" =>
        IF KeywordHits(arg, kws) = {} THEN ret = None
        ELSE ret = Some(UpperText(kws[Min(KeywordHits(arg, kws))]))

\* both keywords hit the line, and the one first in the list stands last in
\* the line
C2_Witness ==
    /\ op = "guess_app_from_line"
    /\ arg = FragUBER \o Frag99
    /\ kws = <<Frag99, FragUber>>
    /\ ret = Some(Frag99)

\* dd/mm, or dd/mm/yyyy with a 4-digit year
DateForm(d) ==
    /\ Len(d) \in {5, 10}
    /\ \A i \in 1..Len(d) : IF i \in {3, 6} THEN d[i] = "/" ELSE IsDigit(d[i])

\* C3: find_best_date returns None or a date of the form dd/mm or dd/mm/yyyy
\* with a 4-digit year, so the date of every record is empty, a 5-character
\* dd/mm or a 10-character dd/mm/yyyy.
C3_DateIsDdMmOrDdMmYyyy ==
    /\ op = "find_best_date" => ret = None \/ DateForm(ret[1])
    /\ op = "extract_candidates_from_text" =>
           \A i \in 1..Len(ret) : ret[i].data = <<>> \/ DateForm(ret[i].data)

\* C4: find_best_amount returns the value of the last token AMOUNT_RE finds
\* in the line, never that of an earlier one, and None when the line has no
\* token; the conversion of a token never fails.
C4_LastAmountWins ==
    op = "find_best_amount" =>
        IF AmountStarts(arg) = {} THEN ret = None
        ELSE LET toks == AmountFindIter(arg, 1)
             IN  \E k \in 1..Len(toks) :
                     /\ \A p \in AmountStarts(arg) : p <= toks[k][2]
                     /\ ret # None
                     /\ ret = br_money_to_float(
                                  SubSeq(arg, toks[k][1], toks[k][2]))

\* a line with the tokens 1,50 and 1.234,56 gave the second
C4_Witness ==
    /\ op = "find_best_amount"
    /\ Len(AmountFindIter(arg, 1)) = 2
    /\ AmountFindIter(arg, 1)[1] = <<1, 4>>
    /\ ret = Some(123456)

====
